---------------------------- MODULE Spec2Model ----------------------------
(***************************************************************************)
(* The frame-submission / packet-drain pipeline of simpleEncoder/main.cpp. *)
(*                                                                         *)
(* main() is modelled statement group by statement group (the variable pc  *)
(* is main's position), encode_frame() as one step for the encode call and *)
(* one step per iteration of its packet loop.  The encoder (libaom) and    *)
(* the C library are the environment: every call into them can return any  *)
(* of the results their interface allows.                                  *)
(***************************************************************************)
EXTENDS Integers, Sequences, FiniteSets, TLC

(***************************************************************************)
(* Bounds of the model.                                                    *)
(***************************************************************************)
MaxDim == 2            \* frame_width, frame_height range over -1..MaxDim
MaxInterval == 2       \* keyframe interval argument ranges over -1..MaxInterval
MaxMaxFrames == 2      \* max_frames ranges over 0..MaxMaxFrames
MaxInputFrames == 2    \* whole frames the input file may hold
MaxLookahead == 2      \* frames the encoder may hold back while encoding
MaxInfoPkts == 1       \* non-frame packets the encoder may hand out in a run
MaxPktSz == 1          \* largest size of a frame payload, in bytes

(***************************************************************************)
(* Program constants.                                                      *)
(***************************************************************************)
EXIT_SUCCESS == 0
EXIT_FAILURE == 1
AOM_CODEC_OK == 0
AOM_CODEC_ERROR == 1
AOM_EFLAG_FORCE_KF == 1
NoStatus == -1         \* exit_status while the process is running
NoReport == -1         \* reported before "Processed %d frames." is printed
Garbage == -1          \* a byte of the image buffer that was never written
CrashStatus == 139     \* status of a process ended by SIGSEGV, as its parent sees it
E2EFrames == 50        \* frames of the input of the hard-coded run
E2EInterval == 30      \* its keyframe interval
E2EMaxFrames == 50     \* its max_frames

aom_encoders == <<"av1">>
CodecArgs == {"av1", "vp9"}

VARIABLES
  \* arguments and environment of the run (never change)
  codec_arg, frame_width, frame_height, keyframe_interval_arg, max_frames,
  fileLen,            \* length of the input file in bytes
  pkt_sizes,          \* sizes the encoder may give a frame payload
  \* main's locals and resources
  pc, exit_status, keyframe_interval, frame_count, frames_encoded,
  raw,                \* image buffer: byte -> file offset it was read from
  imgAllocated, infileOpen, outfileOpen, filePos,
  out,                \* bytes of the output file
  reported,           \* value printed by "Processed %d frames."
  \* encode_frame's locals
  img,                \* "frame" or "null": the img argument of the call
  got_pkts,
  \* the encoder session
  codecState,         \* "none", "ready", "destroyed"
  pending,            \* frames accepted and not yet turned into a packet
  avail,              \* packets aom_codec_get_cx_data will hand out
  infoLeft,           \* non-frame packets the session may still produce
  \* history
  submitted,          \* the real-frame encode calls: [pts, flags, image]
  payloads,           \* the frame packets written completely: [pts, forced]
  nReads, nNullSubmits, nDrains, nDestroys,
  flushDrains,        \* get_cx_data calls since the first encode(NULL)
  flushPkts,          \* packets they returned
  flushL,             \* Len(pending) at the first encode(NULL), -1 before
  undrained,          \* TRUE from an encode call to the NULL that ends its drain
  firstDrain,         \* result of the first get_cx_data after the last encode
  cfgCalled,          \* aom_codec_enc_config_default was called
  initCalled,         \* aom_codec_enc_init was called
  initErr,            \* aom_codec_enc_init returned an error
  encodeErr,          \* some aom_codec_encode call returned an error
  drainedFrames,      \* the frame packets get_cx_data returned: [pts, sz]
  faults,             \* the calls into the environment that failed
  lastBatch,          \* the packets the last encode call left to drain
  outAtSubmit,        \* Len(out) at the last encode call
  readResults,        \* what each aom_img_read call returned
  fatal               \* which die()/die_codec() ended the run, "none" if none

inputVars == <<codec_arg, frame_width, frame_height, keyframe_interval_arg,
               max_frames, fileLen, pkt_sizes>>
mainVars == <<keyframe_interval, frame_count, frames_encoded, raw, imgAllocated,
              infileOpen, outfileOpen, filePos, out, reported>>
encVars == <<img, got_pkts>>
sessVars == <<codecState, pending, avail, infoLeft>>
histVars == <<submitted, payloads, nReads, nNullSubmits, nDrains, nDestroys,
              flushDrains, flushPkts, flushL, undrained, firstDrain,
              cfgCalled, initCalled, initErr, encodeErr>>
obsVars == <<drainedFrames, faults, lastBatch, outAtSubmit, readResults>>
vars == <<inputVars, pc, exit_status, fatal, mainVars, encVars, sessVars, histVars,
          obsVars>>

(***************************************************************************)
(* Geometry of an I420 image (aom_img_plane_width / aom_img_plane_height). *)
(***************************************************************************)
PlaneWidth(w, plane) == IF plane = 0 THEN w ELSE (w + 1) \div 2
PlaneHeight(h, plane) == IF plane = 0 THEN h ELSE (h + 1) \div 2
PlaneBytes(w, h, plane) == PlaneWidth(w, plane) * PlaneHeight(h, plane)
FrameBytes(w, h) == PlaneBytes(w, h, 0) + PlaneBytes(w, h, 1) + PlaneBytes(w, h, 2)
\* offset in the frame of the first byte of row y of a plane
RowStart(w, h, plane, y) ==
  (IF plane > 0 THEN PlaneBytes(w, h, 0) ELSE 0)
  + (IF plane > 1 THEN PlaneBytes(w, h, 1) ELSE 0)
  + y * PlaneWidth(w, plane)

(***************************************************************************)
(* get_aom_encoder_by_name: index of the table entry, 0 for NULL.          *)
(***************************************************************************)
get_aom_encoder_by_name(name) ==
  IF \E i \in 1..Len(aom_encoders) : aom_encoders[i] = name
  THEN CHOOSE i \in 1..Len(aom_encoders) :
         /\ aom_encoders[i] = name
         /\ \A j \in 1..(i - 1) : aom_encoders[j] # name
  ELSE 0

(***************************************************************************)
(* Conditions of main and encode_frame.                                    *)
(***************************************************************************)
\* C's % truncates towards zero; the operands here are never negative
\* when the remainder is taken (the <= 0 tests come first).
InvalidFrameSize(w, h) ==
  w <= 0 \/ h <= 0 \/ (w % 2) # 0 \/ (h % 2) # 0

InvalidKeyframeInterval(i) == i < 0

\* the scheduler taking the counter after its increment
ForceOnNextIndex(n, interval) == interval > 0 /\ (n + 1) % interval = 0

ShouldForceKeyframe(n, interval) == interval > 0 /\ n % interval = 0

\* flags that force a keyframe on every frame
AlwaysForceFlags(n, interval) == AOM_EFLAG_FORCE_KF

EncodeFlags(n, interval) ==
  IF ShouldForceKeyframe(n, interval) THEN AOM_EFLAG_FORCE_KF ELSE 0

\* ++frame_count as the frame_index argument
PreIncrementPts(fc) == fc + 1

\* frame_count++ as the frame_index argument: the value before the increment
PtsArg(fc) == fc

\* the cap tested with > in place of >=
PassedMaxFrames(encoded, maxf) == maxf > 0 /\ encoded > maxf

ReachedMaxFrames(encoded, maxf) == maxf > 0 /\ encoded >= maxf

EncodeFailed(res) == res # AOM_CODEC_OK

\* the result of fwrite not tested
WriteNeverFailed(n, sz) == FALSE

\* line 242: fwrite returned n for a payload of sz bytes
WriteFailed(n, sz) == n # sz

\* every packet taken for a frame packet
AnyPktIsFrame(pkt) == TRUE

\* line 239
IsFramePkt(pkt) == pkt.kind = "frame"

\* got_pkts set only for a frame packet
GotFramePkts(got, pkt) == IF pkt.kind = "frame" THEN 1 ELSE got

\* line 237: got_pkts after the loop body ran for pkt
GotPkts(got, pkt) == 1

\* frames_encoded left as it is
FramesEncodedKept(n) == n

\* line 371: frames_encoded++
IncFramesEncoded(n) == n + 1

\* the result of aom_codec_enc_init not tested
InitNeverFailed(res) == FALSE

InitFailed(res) == res # AOM_CODEC_OK

\* the packet loop ending one packet early
DrainAllButLast(pkts) == Len(pkts) > 1

\* condition of the packet loop: pkts is what the session still holds
DrainContinues(pkts) == pkts # <<>>

\* the flush loop as a single call
FlushOnce(got) == FALSE

\* the flush loop going on while encode_frame returns 0
FlushInverted(got) == got = 0

\* condition of the flush loop: the value encode_frame returned
FlushContinues(got) == got # 0

(***************************************************************************)
(* die / usage_exit and die_codec: both end the process with EXIT_FAILURE. *)
(* cont is the position after the call, which exit() never returns to.     *)
(***************************************************************************)
\* die without the exit
die_returns(why, cont) ==
  /\ pc' = cont
  /\ fatal' = why
  /\ UNCHANGED exit_status

die(why, cont) ==
  /\ pc' = "exit"
  /\ exit_status' = EXIT_FAILURE
  /\ fatal' = why

\* die_codec printing the message and returning to its caller
die_codec_returns(why, cont) ==
  /\ pc' = cont
  /\ fatal' = why
  /\ UNCHANGED exit_status

die_codec(why, cont) ==
  /\ pc' = "exit"
  /\ exit_status' = EXIT_FAILURE
  /\ fatal' = why

\* die_codec(&codec, ...) at line 337, where codec was never initialised:
\* aom_codec_error_detail reads ctx->err and may follow ctx->priv, so the
\* process prints and exits, or is killed on the access.
die_codec_uninit(why, cont) ==
  /\ pc' = "exit"
  /\ exit_status' \in {EXIT_FAILURE, CrashStatus}
  /\ fatal' = why

Goto(l) ==
  /\ pc' = l
  /\ UNCHANGED <<exit_status, fatal>>


(***************************************************************************)
(* aom_img_read: fills the image plane by plane, row by row, from the      *)
(* file; the first short fread ends it with 0.  The bytes of a short row   *)
(* and of the rows before it stay in the buffer.                           *)
(***************************************************************************)
Min(a, b) == IF a < b THEN a ELSE b

\* the rows of a frame in reading order, as <<plane, y>>
ImgRows(w, h) ==
  [y \in 1..PlaneHeight(h, 0) |-> <<0, y - 1>>]
  \o [y \in 1..PlaneHeight(h, 1) |-> <<1, y - 1>>]
  \o [y \in 1..PlaneHeight(h, 2) |-> <<2, y - 1>>]

\* fread(buf, 1, n, file) at row r: the buffer after it
FreadInto(buf, start, n, pos) ==
  [b \in 1..Len(buf) |->
     IF b > start /\ b <= start + n THEN pos + (b - start - 1) ELSE buf[b]]

RECURSIVE ImgReadFrom(_, _, _, _, _, _)
ImgReadFrom(k, buf, pos, w, h, len) ==
  IF k > Len(ImgRows(w, h))
  THEN [ok |-> TRUE, buf |-> buf, pos |-> pos]
  ELSE LET row == ImgRows(w, h)[k]
           rw == PlaneWidth(w, row[1])
           n == Min(rw, len - pos)
           nbuf == FreadInto(buf, RowStart(w, h, row[1], row[2]), n, pos)
       IN IF n # rw
          THEN [ok |-> FALSE, buf |-> nbuf, pos |-> pos + n]
          ELSE ImgReadFrom(k + 1, nbuf, pos + n, w, h, len)

\* the row loop of the first plane starting at y = 1
ImgReadSkippingRow(buf, pos, w, h, len) == ImgReadFrom(2, buf, pos, w, h, len)

aom_img_read(buf, pos, w, h, len) == ImgReadFrom(1, buf, pos, w, h, len)

\* whole frames the input file holds
InputFrames == IF InvalidFrameSize(frame_width, frame_height) THEN 0
               ELSE fileLen \div FrameBytes(frame_width, frame_height)

(***************************************************************************)
(* The encoder session.  aom_codec_encode takes the frame (or NULL) and    *)
(* replaces the list of packets aom_codec_get_cx_data iterates over.  The  *)
(* session turns every accepted frame into one frame packet, in order,     *)
(* holding back at most MaxLookahead frames while frames arrive and        *)
(* handing out at least one packet per encode(NULL) while it holds any.    *)
(***************************************************************************)
InfoPkt == [kind |-> "info", pts |-> -1, forced |-> FALSE, sz |-> 1]

FramePkt(f, sz) == [kind |-> "frame", pts |-> f.pts,
                    forced |-> (f.flags = AOM_EFLAG_FORCE_KF), sz |-> sz]

Payload(pkt) == [j \in 1..pkt.sz |-> <<pkt.pts, j>>]

\* the batches of packets a session holding the frames P may hand out when
\* it emits k frame packets, with ninfo information packets allowed
Batches(P, k, ninfo) ==
  LET frames == {[i \in 1..k |-> FramePkt(P[i], szs[i])] : szs \in [1..k -> pkt_sizes]}
  IN frames \cup (IF ninfo > 0
                  THEN {<<InfoPkt>> \o b : b \in frames} \cup {b \o <<InfoPkt>> : b \in frames}
                  ELSE {})

Drop(P, k) == SubSeq(P, k + 1, Len(P))

\* numbers of frame packets the session may emit on an encode call
EncodeEmits(P) == (IF Len(P) > MaxLookahead THEN Len(P) - MaxLookahead ELSE 0)..Len(P)
FlushEmits(P) == 0..Len(P)

\* The arguments are those of the usage line; main sets them at lines
\* 284-290 in place of argv (lines 292-298), and they are inputs here.  The
\* length of the input file is an input too; a run that ends at the frame
\* size test never opens it.
Init ==
  /\ codec_arg \in CodecArgs
  /\ frame_width \in -1..MaxDim
  /\ frame_height \in -1..MaxDim
  /\ keyframe_interval_arg \in -1..MaxInterval
  /\ max_frames \in 0..MaxMaxFrames
  /\ fileLen \in IF InvalidFrameSize(frame_width, frame_height) THEN {0}
                 ELSE 0..((MaxInputFrames + 1) * FrameBytes(frame_width, frame_height) - 1)
  /\ pkt_sizes = 0..MaxPktSz
  /\ pc = "lookup"
  /\ exit_status = NoStatus
  /\ fatal = "none"
  /\ keyframe_interval = 0
  /\ frame_count = 0
  /\ frames_encoded = 0
  /\ raw = <<>>
  /\ imgAllocated = FALSE
  /\ infileOpen = FALSE
  /\ outfileOpen = FALSE
  /\ filePos = 0
  /\ out = <<>>
  /\ reported = NoReport
  /\ img = "frame"
  /\ got_pkts = 0
  /\ codecState = "none"
  /\ pending = <<>>
  /\ avail = <<>>
  /\ infoLeft = MaxInfoPkts
  /\ submitted = <<>>
  /\ payloads = <<>>
  /\ nReads = 0
  /\ nNullSubmits = 0
  /\ nDrains = 0
  /\ nDestroys = 0
  /\ flushDrains = 0
  /\ flushPkts = 0
  /\ flushL = -1
  /\ undrained = FALSE
  /\ firstDrain = "none"
  /\ cfgCalled = FALSE
  /\ initCalled = FALSE
  /\ initErr = FALSE
  /\ encodeErr = FALSE
  /\ drainedFrames = <<>>
  /\ faults = {}
  /\ lastBatch = <<>>
  /\ outAtSubmit = 0
  /\ readResults = <<>>

(***************************************************************************)
(* main, lines 304-361: validation and setup.                              *)
(***************************************************************************)
LookupCodec ==
  /\ UNCHANGED obsVars
  /\ pc = "lookup"
  /\ IF get_aom_encoder_by_name(codec_arg) = 0
     THEN die("codec", "checksize")
     ELSE Goto("checksize")
  /\ UNCHANGED <<inputVars, mainVars, encVars, sessVars, histVars>>

CheckFrameSize ==
  /\ UNCHANGED obsVars
  /\ pc = "checksize"
  /\ IF InvalidFrameSize(frame_width, frame_height)
     THEN die("size", "alloc")
     ELSE Goto("alloc")
  /\ UNCHANGED <<inputVars, mainVars, encVars, sessVars, histVars>>

\* aom_img_alloc: NULL when memory is short; the planes start unwritten
AllocImage ==
  /\ pc = "alloc"
  /\ \E ok \in BOOLEAN :
       IF ok
       THEN /\ raw' = [b \in 1..FrameBytes(frame_width, frame_height) |-> Garbage]
            /\ imgAllocated' = TRUE
            /\ Goto("kfint")
       ELSE /\ UNCHANGED <<raw, imgAllocated>>
            /\ die("alloc", "kfint")
  /\ faults' = IF imgAllocated' THEN faults ELSE faults \cup {"alloc"}
  /\ UNCHANGED <<drainedFrames, lastBatch, outAtSubmit, readResults>>
  /\ UNCHANGED <<inputVars, keyframe_interval, frame_count, frames_encoded,
                 infileOpen, outfileOpen, filePos, out, reported,
                 encVars, sessVars, histVars>>

ParseKeyframeInterval ==
  /\ UNCHANGED obsVars
  /\ pc = "kfint"
  /\ keyframe_interval' = keyframe_interval_arg
  /\ IF InvalidKeyframeInterval(keyframe_interval_arg)
     THEN die("kfint", "cfgdefault")
     ELSE Goto("cfgdefault")
  /\ UNCHANGED <<inputVars, frame_count, frames_encoded, raw, imgAllocated,
                 infileOpen, outfileOpen, filePos, out, reported,
                 encVars, sessVars, histVars>>

\* aom_codec_enc_config_default and the cfg assignments after it
ConfigDefault ==
  /\ pc = "cfgdefault"
  /\ cfgCalled' = TRUE
  /\ \E res \in {AOM_CODEC_OK, AOM_CODEC_ERROR} :
       /\ faults' = IF res # AOM_CODEC_OK THEN faults \cup {"cfgdefault"} ELSE faults
       /\ IF res # AOM_CODEC_OK
          THEN die_codec_uninit("cfgdefault", "openin")
          ELSE Goto("openin")
  /\ UNCHANGED <<drainedFrames, lastBatch, outAtSubmit, readResults>>
  /\ UNCHANGED <<inputVars, mainVars, encVars, sessVars,
                 submitted, payloads, nReads, nNullSubmits, nDrains, nDestroys,
                 flushDrains, flushPkts, flushL, undrained, firstDrain, initCalled,
                 initErr, encodeErr>>

OpenInfile ==
  /\ pc = "openin"
  /\ \E ok \in BOOLEAN :
       IF ok
       THEN /\ infileOpen' = TRUE
            /\ Goto("openout")
       ELSE /\ UNCHANGED infileOpen
            /\ die("openin", "openout")
  /\ faults' = IF infileOpen' THEN faults ELSE faults \cup {"openin"}
  /\ UNCHANGED <<drainedFrames, lastBatch, outAtSubmit, readResults>>
  /\ UNCHANGED <<inputVars, keyframe_interval, frame_count, frames_encoded, raw,
                 imgAllocated, outfileOpen, filePos, out, reported,
                 encVars, sessVars, histVars>>

\* fopen(outfile_arg, "wb"): the file is created empty
OpenOutfile ==
  /\ pc = "openout"
  /\ \E ok \in BOOLEAN :
       IF ok
       THEN /\ outfileOpen' = TRUE
            /\ out' = <<>>
            /\ Goto("init")
       ELSE /\ UNCHANGED <<outfileOpen, out>>
            /\ die("openout", "init")
  /\ faults' = IF outfileOpen' THEN faults ELSE faults \cup {"openout"}
  /\ UNCHANGED <<drainedFrames, lastBatch, outAtSubmit, readResults>>
  /\ UNCHANGED <<inputVars, keyframe_interval, frame_count, frames_encoded, raw,
                 imgAllocated, infileOpen, filePos, reported,
                 encVars, sessVars, histVars>>

\* aom_codec_enc_init and the two aom_codec_control calls
EncInit ==
  /\ pc = "init"
  /\ initCalled' = TRUE
  /\ \E res \in {AOM_CODEC_OK, AOM_CODEC_ERROR} :
       /\ initErr' = (res # AOM_CODEC_OK)
       /\ faults' = IF res # AOM_CODEC_OK THEN faults \cup {"init"} ELSE faults
       /\ codecState' = IF res = AOM_CODEC_OK THEN "ready" ELSE codecState
       /\ IF InitFailed(res)
          THEN die_codec("init", "read")
          ELSE Goto("read")
  /\ UNCHANGED <<drainedFrames, lastBatch, outAtSubmit, readResults>>
  /\ UNCHANGED <<inputVars, mainVars, encVars, pending, avail, infoLeft,
                 submitted, payloads, nReads, nNullSubmits, nDrains, nDestroys,
                 flushDrains, flushPkts, flushL, undrained, firstDrain, cfgCalled,
                 encodeErr>>

(***************************************************************************)
(* main, lines 365-373: the encode loop, and encode_frame.                 *)
(***************************************************************************)
\* the loop condition aom_img_read(&raw, infile)
ReadFrame ==
  /\ pc = "read"
  /\ LET r == aom_img_read(raw, filePos, frame_width, frame_height, fileLen)
     IN /\ raw' = r.buf
        /\ filePos' = r.pos
        /\ readResults' = Append(readResults, r.ok)
        /\ IF r.ok THEN Goto("encode") ELSE Goto("flush")
  /\ UNCHANGED <<drainedFrames, faults, lastBatch, outAtSubmit>>
  /\ nReads' = nReads + 1
  /\ UNCHANGED <<inputVars, keyframe_interval, frame_count, frames_encoded,
                 imgAllocated, infileOpen, outfileOpen, out, reported,
                 encVars, sessVars,
                 submitted, payloads, nNullSubmits, nDrains, nDestroys,
                 flushDrains, flushPkts, flushL, undrained, firstDrain,
                 cfgCalled, initCalled, initErr, encodeErr>>

\* what aom_codec_encode does to the session, by its result
SessionEncode(res, P, emits, flushing) ==
  IF res = AOM_CODEC_OK
  THEN \E k \in emits : \E b \in Batches(P, k, infoLeft) :
         /\ (flushing /\ P # <<>>) => b # <<>>
         /\ avail' = b
         /\ pending' = Drop(P, k)
         /\ infoLeft' = infoLeft - (Len(b) - k)
  ELSE /\ avail' = <<>>
       /\ UNCHANGED <<pending, infoLeft>>

\* lines 366-369 and 229-234: the flags, the call of encode_frame with
\* frame_count++, aom_codec_encode and the test of its result
EncodeSubmit ==
  /\ pc = "encode"
  /\ LET flags == EncodeFlags(frame_count, keyframe_interval)
         call == [pts |-> PtsArg(frame_count), flags |-> flags, image |-> raw]
     IN /\ submitted' = Append(submitted, call)
        /\ \E res \in {AOM_CODEC_OK, AOM_CODEC_ERROR} :
             /\ SessionEncode(res, Append(pending, call), EncodeEmits(Append(pending, call)), FALSE)
             /\ encodeErr' = (encodeErr \/ res # AOM_CODEC_OK)
             /\ faults' = IF res # AOM_CODEC_OK THEN faults \cup {"encode"} ELSE faults
             /\ IF EncodeFailed(res)
                THEN die_codec("encode", "drain")
                ELSE Goto("drain")
  /\ frame_count' = frame_count + 1
  /\ img' = "frame"
  /\ got_pkts' = 0
  /\ undrained' = TRUE
  /\ firstDrain' = "pending"
  /\ lastBatch' = avail'
  /\ outAtSubmit' = Len(out)
  /\ UNCHANGED <<drainedFrames, readResults>>
  /\ UNCHANGED <<inputVars, keyframe_interval, frames_encoded, raw, imgAllocated,
                 infileOpen, outfileOpen, filePos, out, reported, codecState,
                 payloads, nReads, nNullSubmits, nDrains, nDestroys,
                 flushDrains, flushPkts, flushL, cfgCalled, initCalled, initErr>>

\* lines 236-248: one iteration of the packet loop that got a packet
WritePacket ==
  /\ pc = "drain"
  /\ DrainContinues(avail)
  /\ LET pkt == Head(avail)
     IN /\ avail' = Tail(avail)
        /\ got_pkts' = GotPkts(got_pkts, pkt)
        /\ drainedFrames' = IF pkt.kind = "frame"
                            THEN Append(drainedFrames, [pts |-> pkt.pts, sz |-> pkt.sz])
                            ELSE drainedFrames
        /\ IF IsFramePkt(pkt)
           THEN \E n \in 0..pkt.sz :
                  /\ out' = out \o SubSeq(Payload(pkt), 1, n)
                  /\ faults' = IF n # pkt.sz THEN faults \cup {"write"} ELSE faults
                  /\ IF WriteFailed(n, pkt.sz)
                     THEN /\ die_codec("write", "drain")
                          /\ UNCHANGED payloads
                     ELSE /\ Goto("drain")
                          /\ payloads' = Append(payloads, [pts |-> pkt.pts, forced |-> pkt.forced])
           ELSE /\ Goto("drain")
                /\ UNCHANGED <<out, payloads, faults>>
  /\ UNCHANGED <<lastBatch, outAtSubmit, readResults>>
  /\ nDrains' = nDrains + 1
  /\ flushDrains' = IF img = "null" THEN flushDrains + 1 ELSE flushDrains
  /\ flushPkts' = IF img = "null" THEN flushPkts + 1 ELSE flushPkts
  /\ firstDrain' = IF firstDrain = "pending" THEN "pkt" ELSE firstDrain
  /\ UNCHANGED <<inputVars, keyframe_interval, frame_count, frames_encoded, raw,
                 imgAllocated, infileOpen, outfileOpen, filePos, reported,
                 img, codecState, pending, infoLeft,
                 submitted, nReads, nNullSubmits, nDestroys, flushL, undrained,
                 cfgCalled, initCalled, initErr, encodeErr>>

\* lines 236 and 250: the packet loop ends and encode_frame returns
\* got_pkts, to line 370 of the encode loop or to the flush loop's test
EncodeReturn ==
  /\ UNCHANGED obsVars
  /\ pc = "drain"
  /\ ~DrainContinues(avail)
  /\ undrained' = (avail # <<>>)
  /\ firstDrain' = IF firstDrain = "pending" /\ avail = <<>> THEN "none" ELSE firstDrain
  /\ nDrains' = nDrains + 1
  /\ flushDrains' = IF img = "null" THEN flushDrains + 1 ELSE flushDrains
  /\ IF img = "frame"
     THEN /\ frames_encoded' = IncFramesEncoded(frames_encoded)
          /\ IF ReachedMaxFrames(frames_encoded', max_frames)
             THEN Goto("flush")
             ELSE Goto("read")
     ELSE /\ UNCHANGED frames_encoded
          /\ IF FlushContinues(got_pkts)
             THEN Goto("flush")
             ELSE Goto("finish")
  /\ UNCHANGED <<inputVars, keyframe_interval, frame_count, raw, imgAllocated,
                 infileOpen, outfileOpen, filePos, out, reported,
                 encVars, sessVars,
                 submitted, payloads, nReads, nNullSubmits, nDestroys,
                 flushPkts, flushL, cfgCalled, initCalled, initErr, encodeErr>>

(***************************************************************************)
(* main, line 376: the flush loop calls encode_frame(&codec, NULL, -1, 0). *)
(***************************************************************************)
FlushSkipped ==
  /\ pc = "flush"
  /\ Goto("finish")
  /\ UNCHANGED <<inputVars, mainVars, encVars, sessVars, histVars, obsVars>>

\* No run of the program makes more than MaxFlushCalls encode(NULL) calls:
\* every call but the last drains a packet, and the session holds at most
\* MaxInputFrames frames and MaxInfoPkts information packets.  The guard
\* keeps the state space finite for a flush loop that would not end.
MaxFlushCalls == MaxInputFrames + MaxInfoPkts + 1

FlushSubmit ==
  /\ pc = "flush"
  /\ nNullSubmits < MaxFlushCalls
  /\ img' = "null"
  /\ got_pkts' = 0
  /\ \E res \in {AOM_CODEC_OK, AOM_CODEC_ERROR} :
       /\ SessionEncode(res, pending, FlushEmits(pending), TRUE)
       /\ encodeErr' = (encodeErr \/ res # AOM_CODEC_OK)
       /\ faults' = IF res # AOM_CODEC_OK THEN faults \cup {"encode"} ELSE faults
       /\ IF EncodeFailed(res)
          THEN die_codec("encode", "drain")
          ELSE Goto("drain")
  /\ nNullSubmits' = nNullSubmits + 1
  /\ flushL' = IF flushL = -1 THEN Len(pending) ELSE flushL
  /\ undrained' = TRUE
  /\ firstDrain' = "pending"
  /\ lastBatch' = avail'
  /\ outAtSubmit' = Len(out)
  /\ UNCHANGED <<drainedFrames, readResults>>
  /\ UNCHANGED <<inputVars, mainVars, codecState,
                 submitted, payloads, nReads, nDrains, nDestroys,
                 flushDrains, flushPkts, cfgCalled, initCalled, initErr>>

(***************************************************************************)
(* main, lines 378-387: shutdown.                                          *)
(***************************************************************************)
\* fclose(infile) and "Processed %d frames."
Finish ==
  /\ UNCHANGED obsVars
  /\ pc = "finish"
  /\ infileOpen' = FALSE
  /\ reported' = frame_count
  /\ Goto("free")
  /\ UNCHANGED <<inputVars, keyframe_interval, frame_count, frames_encoded, raw,
                 imgAllocated, outfileOpen, filePos, out,
                 encVars, sessVars, histVars>>

FreeImage_Leaks ==
  /\ UNCHANGED obsVars
  /\ pc = "free"
  /\ Goto("destroy")
  /\ UNCHANGED <<inputVars, mainVars, encVars, sessVars, histVars>>

FreeImage ==
  /\ UNCHANGED obsVars
  /\ pc = "free"
  /\ imgAllocated' = FALSE
  /\ Goto("destroy")
  /\ UNCHANGED <<inputVars, keyframe_interval, frame_count, frames_encoded, raw,
                 infileOpen, outfileOpen, filePos, out, reported,
                 encVars, sessVars, histVars>>

DestroyCodec ==
  /\ pc = "destroy"
  /\ codecState' = "destroyed"
  /\ nDestroys' = nDestroys + 1
  /\ \E res \in {AOM_CODEC_OK, AOM_CODEC_ERROR} :
       /\ faults' = IF res # AOM_CODEC_OK THEN faults \cup {"destroy"} ELSE faults
       /\ IF res # AOM_CODEC_OK
          THEN die_codec("destroy", "close")
          ELSE Goto("close")
  /\ UNCHANGED <<drainedFrames, lastBatch, outAtSubmit, readResults>>
  /\ UNCHANGED <<inputVars, mainVars, encVars, pending, avail, infoLeft,
                 submitted, payloads, nReads, nNullSubmits, nDrains,
                 flushDrains, flushPkts, flushL, undrained, firstDrain,
                 cfgCalled, initCalled, initErr, encodeErr>>

\* fclose(outfile) and return EXIT_SUCCESS
CloseAndExit ==
  /\ UNCHANGED obsVars
  /\ pc = "close"
  /\ outfileOpen' = FALSE
  /\ pc' = "exit"
  /\ exit_status' = EXIT_SUCCESS
  /\ UNCHANGED <<inputVars, fatal, keyframe_interval, frame_count, frames_encoded,
                 raw, imgAllocated, infileOpen, filePos, out, reported,
                 encVars, sessVars, histVars>>

Next ==
  \/ LookupCodec
  \/ CheckFrameSize
  \/ AllocImage
  \/ ParseKeyframeInterval
  \/ ConfigDefault
  \/ OpenInfile
  \/ OpenOutfile
  \/ EncInit
  \/ ReadFrame
  \/ EncodeSubmit
  \/ WritePacket
  \/ EncodeReturn
  \/ FlushSubmit
  \/ Finish
  \/ FreeImage
  \/ DestroyCodec
  \/ CloseAndExit

Spec == Init /\ [][Next]_vars

\* The runs that get past the argument tests: codec "av1", the smallest valid
\* geometry, an input of MaxInputFrames whole frames, and max_frames either
\* unlimited (0) or 1.
InitLive ==
  /\ Init
  /\ codec_arg = "av1"
  /\ frame_width = 2
  /\ frame_height = 2
  /\ keyframe_interval_arg = 1
  /\ max_frames \in 0..1
  /\ fileLen = MaxInputFrames * FrameBytes(2, 2)

\* main is one sequential thread and every library call returns, so a step
\* that can be taken is taken
SpecLive == InitLive /\ [][Next]_vars /\ WF_vars(Next)

(***************************************************************************)
(* The run main's hard-coded arguments describe (lines 284-290): codec     *)
(* "av1", keyframe interval 30, max_frames 50, on an input of 50 frames.   *)
(* The geometry is the smallest valid one, and payloads are one byte.      *)
(***************************************************************************)
InitE2E ==
  /\ codec_arg = "av1"
  /\ frame_width = 2
  /\ frame_height = 2
  /\ keyframe_interval_arg = E2EInterval
  /\ max_frames = E2EMaxFrames
  /\ fileLen = E2EFrames * FrameBytes(2, 2)
  /\ pkt_sizes = {1}
  /\ pc = "lookup"
  /\ exit_status = NoStatus
  /\ fatal = "none"
  /\ keyframe_interval = 0
  /\ frame_count = 0
  /\ frames_encoded = 0
  /\ raw = <<>>
  /\ imgAllocated = FALSE
  /\ infileOpen = FALSE
  /\ outfileOpen = FALSE
  /\ filePos = 0
  /\ out = <<>>
  /\ reported = NoReport
  /\ img = "frame"
  /\ got_pkts = 0
  /\ codecState = "none"
  /\ pending = <<>>
  /\ avail = <<>>
  /\ infoLeft = MaxInfoPkts
  /\ submitted = <<>>
  /\ payloads = <<>>
  /\ nReads = 0
  /\ nNullSubmits = 0
  /\ nDrains = 0
  /\ nDestroys = 0
  /\ flushDrains = 0
  /\ flushPkts = 0
  /\ flushL = -1
  /\ undrained = FALSE
  /\ firstDrain = "none"
  /\ cfgCalled = FALSE
  /\ initCalled = FALSE
  /\ initErr = FALSE
  /\ encodeErr = FALSE
  /\ drainedFrames = <<>>
  /\ faults = {}
  /\ lastBatch = <<>>
  /\ outAtSubmit = 0
  /\ readResults = <<>>

SpecE2E == InitE2E /\ [][Next]_vars

(***************************************************************************)
(* Properties.                                                             *)
(***************************************************************************)
\* main is past the flush loop
FlushDone ==
  \/ pc \in {"finish", "free", "destroy", "close"}
  \/ pc = "exit" /\ fatal \in {"none", "destroy"}

\* the process ended with a non-zero status
ExitedNonZero == pc = "exit" /\ exit_status # NoStatus /\ exit_status # EXIT_SUCCESS

\* this step is an aom_codec_encode call
SubmitStep == Len(submitted') > Len(submitted) \/ nNullSubmits' > nNullSubmits

\* this step calls the encoder, reads a frame or writes output
PipelineStep ==
  \/ SubmitStep
  \/ nDrains' # nDrains
  \/ nDestroys' # nDestroys
  \/ nReads' # nReads
  \/ out' # out

\* C1: every encode call (with a frame or with NULL) is issued only when the
\* packets of the call before it were drained up to the NULL that ends them.
C1_DrainBeforeSubmit ==
  [][SubmitStep => (~undrained /\ avail = <<>>)]_vars

C1_Witness ==
  /\ Len(submitted) = 2
  /\ nNullSubmits = 1
  /\ Len(payloads) >= 1
  /\ undrained
  /\ pc = "drain"

\* C2: the flush loop is left exactly when the first get_cx_data call after an
\* encode(NULL) returned NULL; when it returned a packet the packets are
\* drained to NULL and encode(NULL) is called again; past the loop no encode
\* call is made.
C2_FlushEnds ==
  /\ [](FlushDone => (nNullSubmits >= 1 /\ img = "null" /\ firstDrain = "none"))
  /\ []((img = "null" /\ firstDrain = "none") => (FlushDone \/ pc = "exit"))
  /\ []((img = "null" /\ pc = "flush") => (firstDrain = "pkt" /\ ~undrained))
  /\ [][FlushDone => ~SubmitStep]_vars

C2_Witness ==
  /\ pc = "finish"
  /\ nNullSubmits = 3
  /\ flushPkts = 2

\* C3 as stated: with the L held-back packets as the only packets of the
\* flush, at most L+1 get_cx_data calls are made from the first encode(NULL).
C3_Original ==
  (flushL >= 0 /\ flushPkts <= flushL) => flushDrains <= flushL + 1

\* C3 amended: with the L held-back packets as the only packets of the flush,
\* at most L+1 encode(NULL) calls and at most 2L+1 get_cx_data calls are made.
C3_FlushBound ==
  (flushL >= 0 /\ flushPkts <= flushL) =>
    /\ nNullSubmits <= flushL + 1
    /\ flushDrains <= 2 * flushL + 1

C3_Witness ==
  /\ pc = "finish"
  /\ flushL = 2
  /\ flushPkts = 2
  /\ nNullSubmits = 3
  /\ flushDrains = 5

\* C4: with max_frames = M > 0 and more than M whole frames of input, never
\* more than M frames are read or submitted, and past the flush loop exactly M
\* were read and submitted, the flush ran to its end and M is reported.
C4_MaxFrames ==
  (max_frames > 0 /\ InputFrames > max_frames) =>
    /\ nReads <= max_frames
    /\ Len(submitted) <= max_frames
    /\ FlushDone => /\ nReads = max_frames
                    /\ Len(submitted) = max_frames
                    /\ nNullSubmits >= 1
                    /\ firstDrain = "none"
                    /\ pending = <<>> /\ avail = <<>>
    /\ reported # NoReport => reported = max_frames

C4_Witness ==
  /\ pc = "exit"
  /\ exit_status = EXIT_SUCCESS
  /\ max_frames = 1
  /\ InputFrames = 2
  /\ reported = 1
  /\ Len(payloads) = 1

\* C5: 50 frames of input, keyframe interval 30, max_frames 50: past the flush
\* loop the output holds the payloads of frames 0..49 in that order, those of
\* frames 0 and 30 and no others were forced keyframes, and 50 is reported.
C5_EndToEnd ==
  (/\ InputFrames = E2EFrames
   /\ keyframe_interval_arg = E2EInterval
   /\ max_frames = E2EMaxFrames
   /\ FlushDone) =>
    /\ Len(payloads) = E2EFrames
    /\ \A k \in 1..Len(payloads) :
         /\ payloads[k].pts = k - 1
         /\ payloads[k].forced <=> (k - 1) \in {0, E2EInterval}
    /\ Len(out) = E2EFrames
    /\ reported # NoReport => reported = E2EFrames

C5_Witness ==
  /\ pc = "exit"
  /\ exit_status = EXIT_SUCCESS
  /\ InputFrames = E2EFrames
  /\ Len(payloads) = E2EFrames
  /\ flushPkts = 2
  /\ reported = E2EFrames

\* C6: when aom_codec_enc_init returns an error no frame is read, no encode or
\* get_cx_data call is made, the output is empty and the process has ended
\* with a non-zero status.
C6_InitError ==
  initErr =>
    /\ nReads = 0
    /\ submitted = <<>> /\ nNullSubmits = 0
    /\ nDrains = 0
    /\ out = <<>>
    /\ ExitedNonZero

C6_Witness == initErr /\ pc = "exit" /\ outfileOpen

\* C7: once an aom_codec_encode call has returned an error the process has
\* ended with a non-zero status, and no encode, get_cx_data or destroy call,
\* no read and no write follows.
C7_EncodeError ==
  /\ [](encodeErr => (ExitedNonZero /\ nDestroys = 0))
  /\ [][encodeErr => ~PipelineStep]_vars

C7_Witness ==
  /\ encodeErr
  /\ img = "null"
  /\ Len(out) >= 1
  /\ pc = "exit"

\* C8: a frame submitted with index n carries the force-keyframe flag exactly
\* when the interval i is positive and n mod i = 0; frame 0 is forced whenever
\* i > 0 and no frame is forced when i = 0.
C8_ForceKeyframe ==
  \A k \in 1..Len(submitted) :
    /\ submitted[k].flags \in {0, AOM_EFLAG_FORCE_KF}
    /\ (submitted[k].flags = AOM_EFLAG_FORCE_KF) <=>
         (keyframe_interval_arg > 0 /\ submitted[k].pts % keyframe_interval_arg = 0)
    /\ (keyframe_interval_arg > 0 /\ k = 1) => submitted[k].flags = AOM_EFLAG_FORCE_KF
    /\ keyframe_interval_arg = 0 => submitted[k].flags = 0

C8_Witness ==
  /\ keyframe_interval_arg = 2
  /\ Len(submitted) = 2
  /\ submitted[1].flags = AOM_EFLAG_FORCE_KF
  /\ submitted[2].flags = 0

C10_FrameIndex ==
  \A k \in 1..Len(submitted) : submitted[k].pts = k - 1

C10_Witness ==
  /\ Len(submitted) = 2
  /\ submitted[2].pts = 1
  /\ pc = "drain"

\* the payloads of the frame packets fs, one after the other
RECURSIVE ConcatPayloads(_)
ConcatPayloads(fs) ==
  IF fs = <<>> THEN <<>>
  ELSE ConcatPayloads(SubSeq(fs, 1, Len(fs) - 1)) \o Payload(fs[Len(fs)])

C12_ShortWrite ==
  /\ []("write" \in faults => (ExitedNonZero /\ nDestroys = 0))
  /\ [][("write" \in faults) => ~PipelineStep]_vars

C12_Witness ==
  /\ "write" \in faults
  /\ pc = "exit"
  /\ Len(payloads) >= 1
  /\ avail # <<>>

\* C13: on an input of exactly K whole frames the first K aom_img_read calls
\* return 1 and the call after them returns 0.
C13_ReadRoundTrip ==
  (/\ ~InvalidFrameSize(frame_width, frame_height)
   /\ fileLen = InputFrames * FrameBytes(frame_width, frame_height)) =>
    /\ Len(readResults) <= InputFrames + 1
    /\ \A i \in 1..Len(readResults) : readResults[i] = (i <= InputFrames)

C13_Witness ==
  /\ InputFrames = 2
  /\ fileLen = 2 * FrameBytes(frame_width, frame_height)
  /\ readResults = <<TRUE, TRUE, FALSE>>

\* bytes of the input that belong to whole frames
WholeBytes == InputFrames * FrameBytes(frame_width, frame_height)

\* the input ends after some but not all rows of a frame
EndsPartway ==
  /\ ~InvalidFrameSize(frame_width, frame_height)
  /\ \E k \in 1..(Len(ImgRows(frame_width, frame_height)) - 1) :
       LET row == ImgRows(frame_width, frame_height)[k]
       IN fileLen - WholeBytes =
            RowStart(frame_width, frame_height, row[1], row[2])
            + PlaneWidth(frame_width, row[1])

\* the read of the incomplete frame returned 0 and that frame was not submitted
PartialNeverSubmitted ==
  EndsPartway =>
    /\ Len(readResults) > InputFrames => ~readResults[InputFrames + 1]
    /\ \A k \in 1..Len(submitted) :
         \A b \in DOMAIN submitted[k].image : submitted[k].image[b] < WholeBytes

\* C14: when the input ends partway through a frame, aom_img_read returns 0,
\* the image buffer holds no row of the incomplete frame, and that frame is
\* never submitted.
C14_NoPartialFrame ==
  /\ PartialNeverSubmitted
  /\ EndsPartway => \A b \in DOMAIN raw : raw[b] < WholeBytes

\* the arguments pass the tests of lines 305, 318-319 and 332
ConfigValid ==
  /\ get_aom_encoder_by_name(codec_arg) # 0
  /\ ~InvalidFrameSize(frame_width, frame_height)
  /\ ~InvalidKeyframeInterval(keyframe_interval_arg)

\* the run went through the flush loop and the shutdown with no failure
NormalCompletion ==
  /\ ConfigValid
  /\ faults = {}
  /\ nNullSubmits >= 1 /\ firstDrain = "none"
  /\ reported # NoReport
  /\ nDestroys = 1

\* C15: the process ends with status 0 exactly on normal completion; a run
\* that met a configuration error, a failed fopen or a failed encoder call
\* (config, init, encode, destroy) has ended with a non-zero status.
C15_ExitStatus ==
  /\ pc = "exit" => /\ exit_status # NoStatus
                    /\ exit_status = EXIT_SUCCESS <=> NormalCompletion
  /\ pc # "exit" => exit_status = NoStatus
  /\ faults # {} => ExitedNonZero
  /\ (get_aom_encoder_by_name(codec_arg) = 0 /\ pc # "lookup") => ExitedNonZero
  /\ (InvalidFrameSize(frame_width, frame_height) /\ pc \notin {"lookup", "checksize"})
       => ExitedNonZero
  /\ (InvalidKeyframeInterval(keyframe_interval_arg)
      /\ pc \notin {"lookup", "checksize", "alloc", "kfint"}) => ExitedNonZero

C15_Witness ==
  /\ pc = "exit"
  /\ exit_status = EXIT_SUCCESS
  /\ Len(payloads) = 2
  /\ nReads = 3

\* the run has entered the shutdown of lines 379-387
ReachedDone == reported # NoReport

\* a call of aom_codec_get_cx_data (line 236)
DrainStep == nDrains' # nDrains

\* C16: a run that has reached the shutdown destroys the session exactly
\* once, after the flush loop's final (empty) drain call and after the image
\* is freed; no run destroys twice, and no submit or drain call follows the
\* destroy call.
C16_DestroyOnce ==
  /\ [](/\ nDestroys <= 1
        /\ (ReachedDone /\ pc \in {"close", "exit"}) => nDestroys = 1
        /\ nDestroys = 1 => /\ ReachedDone
                            /\ ~imgAllocated
                            /\ firstDrain = "none" /\ ~undrained
                            /\ flushDrains >= 1)
  /\ [][nDestroys >= 1 => ~(SubmitStep \/ DrainStep)]_vars

C16_Witness ==
  /\ pc = "exit"
  /\ exit_status = EXIT_SUCCESS
  /\ nDestroys = 1
  /\ flushDrains >= 3
  /\ Len(submitted) = 2

\* the guard of FlushSubmit never stops a flush loop
FlushCapUnused == pc = "flush" => nNullSubmits < MaxFlushCalls

\* C17: the input is finite and the session runs out of packets after
\* finitely many encode(NULL) calls, so every run either meets a fatal error
\* or leaves the encode loop and the flush loop and reaches the shutdown.
C17_ReachesDone ==
  /\ <>(ReachedDone \/ fatal # "none")
  /\ (pc = "flush") ~> (FlushDone \/ fatal # "none")

C17_Witness ==
  /\ ReachedDone
  /\ fatal = "none"
  /\ nNullSubmits = MaxFlushCalls
  /\ nReads = MaxInputFrames + 1

\* the driver's state: STARTING 0 (lines 284-358), ENCODING 1 (the loop of
\* line 365), FLUSHING 2 (the loop of line 376), DONE 3 (lines 379-387),
\* ERROR 4 (exit with a non-zero status)
Phase ==
  IF pc = "exit" THEN (IF exit_status = EXIT_SUCCESS THEN 3 ELSE 4)
  ELSE IF pc \in {"finish", "free", "destroy", "close"} THEN 3
  ELSE IF pc = "flush" \/ (pc = "drain" /\ img = "null") THEN 2
  ELSE IF pc \in {"read", "encode", "drain"} THEN 1
  ELSE 0

\* C18: the driver's state only moves one phase forward or to ERROR; after
\* the first encode(NULL) no frame is submitted and no frame is read; a run in
\* DONE has made at least one encode(NULL) call; and a failed read, the very
\* first included, leads to the flush loop and is no error.
C18_PhaseOrder ==
  /\ [][Phase' = Phase \/ Phase' = Phase + 1 \/ Phase' = 4]_vars
  /\ [][nNullSubmits >= 1 => (submitted' = submitted /\ nReads' = nReads)]_vars
  /\ [](Phase = 3 => nNullSubmits >= 1)
  /\ []((readResults # <<>> /\ ~readResults[Len(readResults)] /\ nNullSubmits = 0)
          => (pc = "flush" /\ fatal = "none"))

C18_Witness ==
  /\ pc = "finish"
  /\ fatal = "none"
  /\ fileLen > 0
  /\ readResults = <<FALSE>>
  /\ submitted = <<>>
  /\ nNullSubmits = 1

\* at the top of the encode loop (line 365) or past it without a fatal error
AtLoopTopOrPast ==
  \/ pc \in {"read", "flush", "finish", "free", "destroy", "close"}
  \/ pc = "drain" /\ img = "null"
  \/ pc = "exit" /\ exit_status = EXIT_SUCCESS

\* C19: at the top of every encode-loop iteration and from the loop's exit
\* on, frame_count and frames_encoded both equal the number of frames
\* submitted with success, and the number printed is that same number.
C19_Lockstep ==
  /\ AtLoopTopOrPast => /\ frame_count = frames_encoded
                        /\ frames_encoded = Len(submitted)
  /\ reported # NoReport => /\ reported = frames_encoded
                            /\ reported = frame_count

C19_Witness ==
  /\ pc = "free"
  /\ reported = 2
  /\ frames_encoded = 2
  /\ max_frames = 2
  /\ InputFrames = 2

\* an encode_frame(NULL) call has just returned to the flush loop
AfterFlushCall == img = "null" /\ pc \in {"flush", "finish"}

InfoOnly(batch) == batch # <<>> /\ \A i \in 1..Len(batch) : batch[i].kind # "frame"

\* C20: an encode(NULL) whose packets are all information packets writes
\* nothing and is followed by another encode(NULL); the flush loop ends only
\* after an encode(NULL) that handed out no packet at all.
C20_InfoKeepsFlushing ==
  AfterFlushCall =>
    /\ lastBatch # <<>> <=> pc = "flush"
    /\ InfoOnly(lastBatch) => (Len(out) = outAtSubmit /\ pc = "flush")

C20_Witness ==
  /\ pc = "flush"
  /\ img = "null"
  /\ lastBatch = <<InfoPkt>>
  /\ nNullSubmits >= 1

=============================================================================
